---- MODULE Spec2Model ----
(***************************************************************************)
(* Model of the ServiceNow errbot plugin (servicenow.py): the poller       *)
(* new_issues with its LAST_RUN watermark, the botcmd sn, the formatter    *)
(* issue_details, and the parts of the host and of the ServiceNow backend  *)
(* that the plugin observes (clock, rooms, tickets, HTTP outcomes).        *)
(*                                                                         *)
(* Time is counted in whole hours since 00:00 UTC of day 0.  Text is a     *)
(* sequence of strings; concatenation, join and format() are \o.  A date   *)
(* text carries a day numeral and an hour numeral: strftime and strptime   *)
(* are the conversions between an hour count and that text.  LAST_RUN, a   *)
(* string of digits, is the number its digits spell.                       *)
(***************************************************************************)
EXTENDS Integers, Sequences, FiniteSets, TLC

\* ---------------------------------------------------------------- bounds
ClockStart == 23          \* host clock at activation (hours)
Horizon == 1              \* hours the clock advances after activation
DstStartDay == 2          \* local day on which US/Eastern enters DST at 02:00
DstEndDay == 5            \* local day on which US/Eastern leaves DST at 02:00
MaxDay == 9               \* largest day numeral a date text can carry

\* ---------------------------------------------------- program constants
HoursPerDay == 24
EstOffset == 5
EdtOffset == 4

MaxClock == ClockStart + Horizon
PolledGroup == "Information Security"
Rooms == {"room1", "room2"}
RoomOrder == <<"room1", "room2">>
TicketOrder == <<1, 2>>    \* tickets of the incident table, in listing order
TicketIds == {TicketOrder[k] : k \in 1..Len(TicketOrder)}
Digits == {"0", "1", "2", "3", "4", "5", "6", "7", "8", "9"}

\* ------------------------------------------------------------ date text
\* strftime('%Y%m%d%H%M%S') of an instant: the digits of day and hour.
StrftimeTimeOnly(t) == t % HoursPerDay
Strftime(t) == (t \div HoursPerDay) * 100 + (t % HoursPerDay)

\* the instant a LAST_RUN reading denotes
ReadingInstant(w) == (w \div 100) * HoursPerDay + (w % 100)

\* pytz US/Eastern localize (is_dst=False): offset to add to a local hour
\* count; the skipped hour 02:00-03:00 of the day DST starts and the repeated
\* hour 01:00-02:00 of the day DST ends are both read as standard time.
LocalizeOffsetStandard(l) == EstOffset
LocalizeOffset(l) ==
    IF l < DstStartDay * HoursPerDay + 3 THEN EstOffset
    ELSE IF l < DstEndDay * HoursPerDay + 1 THEN EdtOffset
    ELSE EstOffset

\* offset in force at a UTC instant (backend rendering of display values)
OffsetAtInstant(u) ==
    IF u < DstStartDay * HoursPerDay + 2 + EstOffset THEN EstOffset
    ELSE IF u < DstEndDay * HoursPerDay + 2 + EdtOffset THEN EdtOffset
    ELSE EstOffset

\* convert_tz(date, from_tz, to_tz) with to_tz = utc, on hour counts
convert_tz(l, off) == l + off

\* set_last_run: now() localized in bot_tz = utc, converted, rendered
set_last_run_brisbane(now) == Strftime(convert_tz(now, 0 - 10))
set_last_run(now) == Strftime(convert_tz(now, 0))

\* ------------------------------------------------------------- variables
VARIABLES
    clock,        \* dt.datetime.now() of the host, in hours
    filterZone,   \* zone in which the backend reads the sysparm_query bound
    store,        \* the plugin's persistent storage (self[...])
    tickets,      \* incident table of the backend: id -> record
    rooms,        \* self.rooms() of the host
    pc,           \* position of the poller callback new_issues
    last_run,     \* local last_run of new_issues
    results,      \* tickets of the response still to be sent
    http,         \* outcome of self.get in the current cycle
    outcome,      \* how the last cycle ended
    before,       \* storage when the current cycle was invoked
    invoked,      \* clock when the current cycle was invoked
    returned,     \* result list of the current cycle's response
    seen,         \* self.rooms() as read for each ticket of the cycle
    sent,         \* self.send calls of the current cycle, in order
    seeded,       \* watermark stored by the first-run branch
    notified,     \* tickets whose current update has been sent
    covered,      \* of those, the ones sent by a cycle that ran to its end
    failed,       \* tickets whose current update made an earlier cycle raise
    snPc,         \* position of the botcmd sn
    snNumber,     \* args of the current / last sn call
    snRequests,   \* requests.get calls of the current / last sn call
    snResponse,   \* the response the current / last sn call received
    snReturn      \* what the last sn call returned or raised

pollVars == <<pc, last_run, results, http, outcome, before, invoked, returned,
              seen, sent, seeded, notified, covered, failed>>
snVars == <<snPc, snNumber, snRequests, snResponse, snReturn>>
envVars == <<clock, filterZone, tickets, rooms>>
vars == <<clock, filterZone, store, tickets, rooms, pc, last_run, results, http,
          outcome, before, invoked, returned, seen, sent, seeded, notified,
          covered, failed, snPc, snNumber, snRequests, snResponse, snReturn>>

\* ---------------------------------------------------------------- backend
NoResponse == -1
ConnectionError == 0      \* requests.get raised instead of returning
StatusCodes == {200, 204, 404}

\* response.status_code != 200
NotOkClientError(status_code) == status_code >= 400
NotOk(status_code) == status_code # 200

Number(i) == <<"I", "N", "C", "0", "0", "0", "0", "0", "0">> \o <<ToString(i)>>

\* a date rendered as YYYY-MM-DD HH:MM:SS: day numeral, blank, hour numeral,
\* minutes and seconds
StrftimeDate(t) == <<ToString(t \div HoursPerDay), " ", ToString(t % HoursPerDay), ":00:00">>

\* display value of sys_updated_on: the instant in the API account's zone,
\* in the account's date format (the expected one, or another one)
Display(t) ==
    LET l == t.updated - OffsetAtInstant(t.updated)
    IN  IF t.iso THEN StrftimeDate(l)
        ELSE <<ToString(l \div HoursPerDay), "T", ToString(l % HoursPerDay), ":00:00">>

Issue(i) ==
    [number |-> Number(i),
     short_description |-> "desc",
     sys_created_by |-> "creator",
     state |-> "New",
     sys_updated_on |-> Display(tickets[i])]

\* sys_updated_on>{last_run}: the bound is read as UTC or in the account zone
UpdatedAtOrAfter(t, bound) ==
    IF filterZone = "UTC"
    THEN t.updated >= ReadingInstant(bound)
    ELSE t.updated - OffsetAtInstant(t.updated) >= ReadingInstant(bound)
UpdatedAfter(t, bound) ==
    IF filterZone = "UTC"
    THEN t.updated > ReadingInstant(bound)
    ELSE t.updated - OffsetAtInstant(t.updated) > ReadingInstant(bound)

\* sysparm_query and assignment_group of new_issues, applied to one ticket
Selected(t, bound) ==
    /\ t.assigned_to = ""
    /\ t.group = PolledGroup
    /\ UpdatedAfter(t, bound)

RECURSIVE QueryFrom(_, _)
QueryFrom(k, bound) ==
    IF k > Len(TicketOrder) THEN <<>>
    ELSE (IF TicketOrder[k] \in DOMAIN tickets /\ Selected(tickets[TicketOrder[k]], bound)
          THEN <<Issue(TicketOrder[k])>> ELSE <<>>) \o QueryFrom(k + 1, bound)

\* response.json()['result'] of the poll request
Query(bound) == QueryFrom(1, bound)

\* -------------------------------------------------------------- formatter
IsNumeral(text, n) == \E v \in 0..n : ToString(v) = text
NumeralValue(text, n) == CHOOSE v \in 0..n : ToString(v) = text

\* dt.datetime.strptime(text, date_format) raises ValueError
StrptimeRaises(text) ==
    ~ /\ Len(text) = 4
      /\ IsNumeral(text[1], MaxDay)
      /\ text[2] = " "
      /\ IsNumeral(text[3], HoursPerDay - 1)
      /\ text[4] = ":00:00"

\* the parsed naive date as an hour count
Strptime(text) ==
    NumeralValue(text[1], MaxDay) * HoursPerDay + NumeralValue(text[3], HoursPerDay - 1)

\* ' | '.join(fields)
RECURSIVE Join(_, _)
Join(sep, fields) ==
    IF fields = <<>> THEN <<>>
    ELSE IF Len(fields) = 1 THEN Head(fields)
    ELSE Head(fields) \o <<sep>> \o Join(sep, Tail(fields))

issue_details(issue) ==
    LET short_url == <<"https://url.corp.redhat.com/">> \o issue.number
        sys_updated_on == Strptime(issue.sys_updated_on)
        utc_sys_updated_on == convert_tz(sys_updated_on, LocalizeOffset(sys_updated_on))
    IN  Join(" | ", <<short_url,
                      <<issue.short_description>>,
                      <<issue.sys_created_by>>,
                      <<issue.state>>,
                      StrftimeDate(utc_sys_updated_on) \o <<" ", "UTC">> >>)

\* ----------------------------------------------------------------- poller
\* self.rooms() as a list
RECURSIVE RoomList(_)
RoomList(k) ==
    IF k > Len(RoomOrder) THEN <<>>
    ELSE (IF RoomOrder[k] \in rooms THEN <<RoomOrder[k]>> ELSE <<>>) \o RoomList(k + 1)

\* for room in self.rooms(): self.send(room, message)
SendFirst(roomList, message) ==
    IF roomList = <<>> THEN <<>>
    ELSE <<[room |-> Head(roomList), message |-> message]>>
RECURSIVE SendAll(_, _)
SendAll(roomList, message) ==
    IF roomList = <<>> THEN <<>>
    ELSE <<[room |-> Head(roomList), message |-> message]>> \o SendAll(Tail(roomList), message)

HasLastRun(s) == "LAST_RUN" \in DOMAIN s

\* A handler that has returned (or raised) hands its result to the host before
\* anything else is scheduled: the state in which a cycle or a lookup has just
\* ended is left by Rearm or Reply only.
Handing == pc = "returned" \/ snPc = "returned"

\* new_issues, lines 43-56: read or seed the watermark, build the query
StartCycle ==
    /\ ~Handing
    /\ pc = "idle"
    /\ before' = store
    /\ invoked' = clock
    /\ IF HasLastRun(store)
       THEN /\ store' = store
            /\ last_run' = store["LAST_RUN"]
            /\ seeded' = seeded
       ELSE /\ store' = [k \in {"LAST_RUN"} |-> set_last_run(clock)]
            /\ last_run' = set_last_run(clock)
            /\ seeded' = <<set_last_run(clock)>>
    /\ results' = <<>>
    /\ returned' = <<>>
    /\ seen' = <<>>
    /\ sent' = <<>>
    /\ http' = NoResponse
    /\ outcome' = "running"
    /\ pc' = "get"
    /\ UNCHANGED <<notified, covered, failed, envVars, snVars>>

\* new_issues, lines 58-65: the request and the status check
GetIssuesAdvancing ==
    /\ ~Handing
    /\ pc = "get"
    /\ \E r \in StatusCodes \cup {ConnectionError} :
        /\ http' = r
        /\ IF r = ConnectionError
           THEN /\ pc' = "returned"
                /\ outcome' = "raised"
                /\ store' = store
                /\ UNCHANGED <<results, returned>>
           ELSE IF NotOk(r)
           THEN /\ pc' = "returned"
                /\ outcome' = "aborted"
                /\ store' = [store EXCEPT !["LAST_RUN"] = set_last_run(clock)]
                /\ UNCHANGED <<results, returned>>
           ELSE /\ pc' = "loop"
                /\ outcome' = outcome
                /\ store' = store
                /\ results' = Query(last_run)
                /\ returned' = Query(last_run)
    /\ UNCHANGED <<last_run, before, invoked, seen, sent, seeded, notified,
                   covered, failed, envVars, snVars>>
GetIssues ==
    /\ ~Handing
    /\ pc = "get"
    /\ \E r \in StatusCodes \cup {ConnectionError} :
        /\ http' = r
        /\ IF r = ConnectionError
           THEN /\ pc' = "returned"
                /\ outcome' = "raised"
                /\ UNCHANGED <<results, returned>>
           ELSE IF NotOk(r)
           THEN /\ pc' = "returned"
                /\ outcome' = "aborted"
                /\ UNCHANGED <<results, returned>>
           ELSE /\ pc' = "loop"
                /\ outcome' = outcome
                /\ results' = Query(last_run)
                /\ returned' = Query(last_run)
    /\ UNCHANGED <<store, last_run, before, invoked, seen, sent, seeded, notified,
                   covered, failed, envVars, snVars>>

\* new_issues, lines 66-69: one iteration of the loop over the results
SendIssueSkipping ==
    /\ ~Handing
    /\ pc = "loop"
    /\ results # <<>>
    /\ LET issue == Head(results) IN
       IF StrptimeRaises(issue.sys_updated_on)
       THEN /\ results' = Tail(results)
            /\ seen' = Append(seen, <<>>)
            /\ UNCHANGED <<pc, outcome, sent, notified>>
       ELSE /\ sent' = sent \o SendAll(RoomList(1), <<"Incoming: ">> \o issue_details(issue))
            /\ seen' = Append(seen, RoomList(1))
            /\ notified' = notified \cup
                 {i \in DOMAIN tickets : Issue(i) = issue}
            /\ results' = Tail(results)
            /\ UNCHANGED <<pc, outcome>>
    /\ UNCHANGED <<store, last_run, http, before, invoked, returned, seeded,
                   covered, failed, envVars, snVars>>
SendIssueFinally ==
    /\ ~Handing
    /\ pc = "loop"
    /\ results # <<>>
    /\ LET issue == Head(results) IN
       IF StrptimeRaises(issue.sys_updated_on)
       THEN /\ pc' = "returned"
            /\ outcome' = "raised"
            /\ store' = [store EXCEPT !["LAST_RUN"] = set_last_run(clock)]
            /\ UNCHANGED <<results, seen, sent, notified>>
       ELSE /\ sent' = sent \o SendAll(RoomList(1), <<"Incoming: ">> \o issue_details(issue))
            /\ seen' = Append(seen, RoomList(1))
            /\ notified' = notified \cup
                 {i \in DOMAIN tickets : Issue(i) = issue}
            /\ results' = Tail(results)
            /\ UNCHANGED <<store, pc, outcome>>
    /\ UNCHANGED <<last_run, http, before, invoked, returned, seeded,
                   covered, failed, envVars, snVars>>
SendIssueCached ==
    /\ ~Handing
    /\ pc = "loop"
    /\ results # <<>>
    /\ LET issue == Head(results)
           cached == IF seen = <<>> THEN RoomList(1) ELSE seen[1]
       IN
       IF StrptimeRaises(issue.sys_updated_on)
       THEN /\ pc' = "returned"
            /\ outcome' = "raised"
            /\ UNCHANGED <<results, seen, sent, notified>>
       ELSE /\ sent' = sent \o SendAll(cached, <<"Incoming: ">> \o issue_details(issue))
            /\ seen' = Append(seen, cached)
            /\ notified' = notified \cup
                 {i \in DOMAIN tickets : Issue(i) = issue}
            /\ results' = Tail(results)
            /\ UNCHANGED <<pc, outcome>>
    /\ UNCHANGED <<store, last_run, http, before, invoked, returned, seeded,
                   covered, failed, envVars, snVars>>
SendIssueAdvancing ==
    /\ ~Handing
    /\ pc = "loop"
    /\ results # <<>>
    /\ LET issue == Head(results) IN
       IF StrptimeRaises(issue.sys_updated_on)
       THEN /\ pc' = "returned"
            /\ outcome' = "raised"
            /\ UNCHANGED <<store, results, seen, sent, notified>>
       ELSE /\ sent' = sent \o SendAll(RoomList(1), <<"Incoming: ">> \o issue_details(issue))
            /\ seen' = Append(seen, RoomList(1))
            /\ notified' = notified \cup
                 {i \in DOMAIN tickets : Issue(i) = issue}
            /\ results' = Tail(results)
            /\ store' = [store EXCEPT !["LAST_RUN"] = set_last_run(clock)]
            /\ UNCHANGED <<pc, outcome>>
    /\ UNCHANGED <<last_run, http, before, invoked, returned, seeded,
                   covered, failed, envVars, snVars>>
SendIssue ==
    /\ ~Handing
    /\ pc = "loop"
    /\ results # <<>>
    /\ LET issue == Head(results) IN
       IF StrptimeRaises(issue.sys_updated_on)
       THEN /\ pc' = "returned"
            /\ outcome' = "raised"
            /\ UNCHANGED <<results, seen, sent, notified>>
       ELSE /\ sent' = sent \o SendAll(RoomList(1), <<"Incoming: ">> \o issue_details(issue))
            /\ seen' = Append(seen, RoomList(1))
            /\ notified' = notified \cup
                 {i \in DOMAIN tickets : Issue(i) = issue}
            /\ results' = Tail(results)
            /\ UNCHANGED <<pc, outcome>>
    /\ UNCHANGED <<store, last_run, http, before, invoked, returned, seeded,
                   covered, failed, envVars, snVars>>

\* new_issues, line 72: the loop is over, the watermark is advanced
FinishCycleAtInvocation ==
    /\ ~Handing
    /\ pc = "loop"
    /\ results = <<>>
    /\ store' = [store EXCEPT !["LAST_RUN"] = set_last_run(invoked)]
    /\ pc' = "returned"
    /\ outcome' = "done"
    /\ covered' = covered \cup
         {i \in notified : \E k \in 1..Len(returned) : returned[k] = Issue(i)}
    /\ UNCHANGED <<last_run, results, http, before, invoked, returned, seen, sent,
                   seeded, notified, failed, envVars, snVars>>
FinishCycle ==
    /\ ~Handing
    /\ pc = "loop"
    /\ results = <<>>
    /\ store' = [store EXCEPT !["LAST_RUN"] = set_last_run(clock)]
    /\ pc' = "returned"
    /\ outcome' = "done"
    /\ covered' = covered \cup
         {i \in notified : \E k \in 1..Len(returned) : returned[k] = Issue(i)}
    /\ UNCHANGED <<last_run, results, http, before, invoked, returned, seen, sent,
                   seeded, notified, failed, envVars, snVars>>

\* activate, line 27: the host's poller takes the callback's return (or logs
\* its exception) and arms the timer again; the callback's frame is gone
Rearm ==
    /\ pc = "returned"
    /\ pc' = "idle"
    /\ last_run' = 0
    /\ results' = <<>>
    /\ returned' = <<>>
    /\ seen' = <<>>
    /\ sent' = <<>>
    /\ http' = NoResponse
    /\ outcome' = "none"
    /\ before' = <<>>
    /\ invoked' = 0
    /\ failed' = IF outcome = "raised" /\ results # <<>>
                 THEN failed \cup {i \in DOMAIN tickets : Issue(i) = Head(results)}
                 ELSE failed
    /\ UNCHANGED <<store, seeded, notified, covered, envVars, snVars>>

\* ----------------------------------------------------------------- lookup
INC == <<"I", "N", "C">>
TASK == <<"T", "A", "S", "K">>
D7 == <<"1", "2", "3", "4", "5", "6", "7">>

\* arguments a user may give to the command
Args ==
    { INC \o D7,
      TASK \o D7,
      INC \o D7 \o <<"\n">>,
      INC \o <<"1", "2", "3">>,
      <<"X", "Y", "Z">> \o D7,
      <<"i", "n", "c">> \o D7,
      INC \o D7 \o <<"8">>,
      <<" ">> \o INC \o D7,
      TASK \o D7 \o <<" ">> }

\* re.compile('^' + prefix + '\d{7}$').match(text): $ also matches just
\* before a newline that ends the text
ReMatch(prefix, text) ==
    LET n == Len(prefix) IN
    /\ Len(text) >= n + 7
    /\ SubSeq(text, 1, n) = prefix
    /\ \A k \in (n + 1)..(n + 7) : text[k] \in Digits
    /\ \/ Len(text) = n + 7
       \/ Len(text) = n + 8 /\ text[n + 8] = "\n"

\* sn, lines 98-103: the table of a number, or none
TableIncidentFirst(number) ==
    IF ReMatch(INC, number) \/ ReMatch(TASK, number) THEN "incident" ELSE "none"
Table(number) ==
    IF ReMatch(INC, number) THEN "incident"
    ELSE IF ReMatch(TASK, number) THEN "sc_task"
    ELSE "none"

Returned(text) == [kind |-> "return", text |-> text]
Raised(exception) == [kind |-> "raise", text |-> <<exception>>]
NoReturn == [kind |-> "none", text |-> <<>>]
NoLookupResponse == [status_code |-> NoResponse, result |-> <<>>]

\* result lists the backend may answer a lookup with: any part of its table
RECURSIVE Listing(_, _)
Listing(k, picked) ==
    IF k > Len(TicketOrder) THEN <<>>
    ELSE (IF TicketOrder[k] \in picked THEN <<Issue(TicketOrder[k])>> ELSE <<>>)
         \o Listing(k + 1, picked)
LookupResults == {Listing(1, picked) : picked \in SUBSET DOMAIN tickets}

\* sn, lines 92-108: dispatch on the argument and issue the request
SnCall ==
    /\ ~Handing
    /\ snPc = "idle"
    /\ \E args \in Args :
        /\ snNumber' = args
        /\ IF Table(args) = "none"
           THEN /\ snRequests' = <<>>
                /\ snReturn' = Returned(<<"Invalid issue number">>)
                /\ snPc' = "returned"
           ELSE /\ snRequests' = <<[table |-> Table(args), number |-> args]>>
                /\ snReturn' = NoReturn
                /\ snPc' = "get"
    /\ snResponse' = NoLookupResponse
    /\ UNCHANGED <<store, pollVars, envVars>>

\* sn, lines 113-118: what is made of the result list of a 200 response
SnResultFirst(number, result) ==
    IF Len(result) >= 1
    THEN IF StrptimeRaises(result[1].sys_updated_on)
         THEN Raised("ValueError")
         ELSE Returned(issue_details(result[1]))
    ELSE Returned(number \o <<" was not found">>)
SnResult(number, result) ==
    IF Len(result) = 1
    THEN IF StrptimeRaises(result[1].sys_updated_on)
         THEN Raised("ValueError")
         ELSE Returned(issue_details(result[1]))
    ELSE Returned(number \o <<" was not found">>)

\* sn, lines 108-118: the response arrives (or requests.get raises)
SnResponseStoring ==
    /\ ~Handing
    /\ snPc = "get"
    /\ \E r \in StatusCodes \cup {ConnectionError}, result \in LookupResults :
        /\ snResponse' = [status_code |-> r,
                          result |-> IF r = 200 THEN result ELSE <<>>]
        /\ snReturn' =
             IF r = ConnectionError THEN Raised("ConnectionError")
             ELSE IF NotOk(r)
             THEN Returned(<<"Could not get information about ">> \o snNumber
                           \o <<" from ServiceNow">>)
             ELSE SnResult(snNumber, result)
    /\ snPc' = "returned"
    /\ store' = [k \in {"LAST_RUN"} |-> set_last_run(clock)]
    /\ UNCHANGED <<snNumber, snRequests, pollVars, envVars>>
SnResponse ==
    /\ ~Handing
    /\ snPc = "get"
    /\ \E r \in StatusCodes \cup {ConnectionError}, result \in LookupResults :
        /\ snResponse' = [status_code |-> r,
                          result |-> IF r = 200 THEN result ELSE <<>>]
        /\ snReturn' =
             IF r = ConnectionError THEN Raised("ConnectionError")
             ELSE IF NotOk(r)
             THEN Returned(<<"Could not get information about ">> \o snNumber
                           \o <<" from ServiceNow">>)
             ELSE SnResult(snNumber, result)
    /\ snPc' = "returned"
    /\ UNCHANGED <<snNumber, snRequests, store, pollVars, envVars>>

\* the host takes the command's reply (or its exception)
Reply ==
    /\ snPc = "returned"
    /\ snPc' = "idle"
    /\ snNumber' = <<>>
    /\ snRequests' = <<>>
    /\ snResponse' = NoLookupResponse
    /\ snReturn' = NoReturn
    /\ UNCHANGED <<store, pollVars, envVars>>

\* ------------------------------------------------------------ environment
\* the host clock advances
Tick ==
    /\ ~Handing
    /\ clock < MaxClock
    /\ clock' = clock + 1
    /\ UNCHANGED <<filterZone, tickets, rooms, store, pollVars, snVars>>

Kinds ==
    { [assigned_to |-> "", group |-> PolledGroup, iso |-> TRUE],
      [assigned_to |-> "someone", group |-> PolledGroup, iso |-> TRUE],
      [assigned_to |-> "", group |-> "Other", iso |-> TRUE],
      [assigned_to |-> "", group |-> PolledGroup, iso |-> FALSE] }

\* a ticket of the backend is created or updated by its users
UpdateTicket ==
    /\ ~Handing
    /\ \E i \in TicketIds, k \in Kinds :
        /\ tickets' = [j \in DOMAIN tickets \cup {i} |->
                         IF j = i THEN [updated |-> clock,
                                        assigned_to |-> k.assigned_to,
                                        group |-> k.group,
                                        iso |-> k.iso]
                         ELSE tickets[j]]
        /\ notified' = notified \ {i}
        /\ covered' = covered \ {i}
        /\ failed' = failed \ {i}
    /\ UNCHANGED <<clock, filterZone, rooms, store, pc, last_run, results, http,
                   outcome, before, invoked, returned, seen, sent, seeded, snVars>>

\* a room is joined or left on the host
ChangeRooms ==
    /\ ~Handing
    /\ \E r \in Rooms :
        rooms' = IF r \in rooms THEN rooms \ {r} ELSE rooms \cup {r}
    /\ UNCHANGED <<clock, filterZone, tickets, store, pollVars, snVars>>

\* ---------------------------------------------------------- specification
Init ==
    /\ clock = ClockStart
    /\ filterZone \in {"UTC", "US/Eastern"}
    /\ store = <<>>
    /\ tickets = <<>>
    /\ rooms \in SUBSET Rooms
    /\ pc = "idle"
    /\ last_run = 0
    /\ results = <<>>
    /\ http = NoResponse
    /\ outcome = "none"
    /\ before = <<>>
    /\ invoked = 0
    /\ returned = <<>>
    /\ seen = <<>>
    /\ sent = <<>>
    /\ seeded = <<>>
    /\ notified = {}
    /\ covered = {}
    /\ failed = {}
    /\ snPc = "idle"
    /\ snNumber = <<>>
    /\ snRequests = <<>>
    /\ snResponse = NoLookupResponse
    /\ snReturn = NoReturn

Next ==
    \/ StartCycle
    \/ GetIssues
    \/ SendIssue
    \/ FinishCycle
    \/ Rearm
    \/ SnCall
    \/ SnResponse
    \/ Reply
    \/ Tick
    \/ UpdateTicket
    \/ ChangeRooms

Spec == Init /\ [][Next]_vars

\* the poller alone with its environment
PollNext ==
    \/ StartCycle
    \/ GetIssues
    \/ SendIssue
    \/ FinishCycle
    \/ Rearm
    \/ Tick
    \/ UpdateTicket
    \/ ChangeRooms

PollSpec == Init /\ [][PollNext]_vars

\* the command alone with its environment
LookupNext ==
    \/ SnCall
    \/ SnResponse
    \/ Reply
    \/ Tick
    \/ UpdateTicket

LookupSpec == Init /\ [][LookupNext]_vars

\* the poller and the command together, as far as their requests go: the
\* rooms play no part in a request and are held fixed
TransportInit == Init /\ rooms = Rooms

TransportNext ==
    \/ StartCycle
    \/ GetIssues
    \/ SendIssue
    \/ FinishCycle
    \/ Rearm
    \/ SnCall
    \/ SnResponse
    \/ Reply
    \/ Tick
    \/ UpdateTicket

TransportSpec == TransportInit /\ [][TransportNext]_vars

\* the formatter on records of any date: the command is given the one ticket
\* of a table, last updated at the instant the host clock shows, for every
\* instant whose local date text the formatter can read
FormatInstants == EstOffset..(MaxDay * HoursPerDay + HoursPerDay - 1)

FormatInit ==
    /\ clock \in FormatInstants
    /\ filterZone \in {"UTC", "US/Eastern"}
    /\ store = <<>>
    /\ \E iso \in BOOLEAN :
          tickets = [i \in {TicketOrder[1]} |->
                        [updated |-> clock, assigned_to |-> "",
                         group |-> PolledGroup, iso |-> iso]]
    /\ rooms = Rooms
    /\ pc = "idle"
    /\ last_run = 0
    /\ results = <<>>
    /\ http = NoResponse
    /\ outcome = "none"
    /\ before = <<>>
    /\ invoked = 0
    /\ returned = <<>>
    /\ seen = <<>>
    /\ sent = <<>>
    /\ seeded = <<>>
    /\ notified = {}
    /\ covered = {}
    /\ failed = {}
    /\ snPc = "idle"
    /\ snNumber = <<>>
    /\ snRequests = <<>>
    /\ snResponse = NoLookupResponse
    /\ snReturn = NoReturn

FormatNext ==
    \/ SnCall
    \/ SnResponse
    \/ Reply

FormatSpec == FormatInit /\ [][FormatNext]_vars

TypeOK ==
    /\ clock \in ClockStart..MaxClock
    /\ pc \in {"idle", "get", "loop", "returned"}
    /\ snPc \in {"idle", "get", "returned"}
    /\ rooms \subseteq Rooms
    /\ DOMAIN tickets \subseteq TicketIds
    /\ notified \subseteq TicketIds
    /\ covered \subseteq notified
    /\ failed \subseteq TicketIds

\* ================================================================ claims
\* the HTTP call of the current cycle failed: a status other than 200, or
\* an exception of the HTTP client
HttpFailed == http # NoResponse /\ http # 200
FirstCycle == pc \in {"get", "loop", "returned"} /\ ~HasLastRun(before)
Watermark == ReadingInstant(store["LAST_RUN"])

\* the instant a returned record says its ticket was last updated at
IssueInstant(issue) ==
    LET l == NumeralValue(issue.sys_updated_on[1], MaxDay) * HoursPerDay
             + NumeralValue(issue.sys_updated_on[3], HoursPerDay - 1)
    IN  l + LocalizeOffset(l)

AllFormat(issues) == \A k \in 1..Len(issues) : ~StrptimeRaises(issues[k].sys_updated_on)

\* C1 as stated: in every poll cycle, the first one included, a failed HTTP
\* call leaves the stored watermark equal to the one stored before the cycle
\* and no notification is sent.
C1_Original ==
    (pc = "returned" /\ HttpFailed) => (store = before /\ sent = <<>>)

\* C1 amended: after a poll cycle whose HTTP call failed no notification has
\* been sent and the stored watermark is the one the cycle started from: the
\* stored one when there was one, and on the first cycle the seed the cycle
\* stored itself (its start time) before it issued the request.
C1_FailureKeepsWatermark ==
    (pc = "returned" /\ HttpFailed) =>
        /\ sent = <<>>
        /\ seen = <<>>
        /\ IF HasLastRun(before) THEN store = before
           ELSE HasLastRun(store) /\ Watermark = invoked

C1_Witness ==
    /\ pc = "returned"
    /\ http = 404
    /\ ~HasLastRun(before)
    /\ HasLastRun(store)
    /\ \E i \in DOMAIN tickets : Selected(tickets[i], 0)

\* C2 as stated: the first-ever poll cycle sends no notification and ends
\* with the watermark equal to the cycle's start time.
C2_Original ==
    (pc = "returned" /\ ~HasLastRun(before)) =>
        /\ sent = <<>>
        /\ seen = <<>>
        /\ HasLastRun(store) /\ Watermark = invoked

\* C2 amended: the first-ever poll cycle stores a seed equal to its start
\* time and then goes on like any other cycle with the seed as lower bound:
\* every ticket it is given, and so every ticket it notifies, was updated
\* after the seed (no pre-existing ticket is notified), and when it runs to
\* its end the watermark is rewritten to the time at which it ends.
C2_FirstCycleSeeds ==
    FirstCycle =>
        /\ seeded = <<last_run>>
        /\ ReadingInstant(last_run) = invoked
        /\ HasLastRun(store) /\ Watermark >= invoked
        /\ \A k \in 1..Len(returned) : IssueInstant(returned[k]) > invoked
        /\ \A m \in 1..Len(sent) : \E k \in 1..Len(returned) :
              /\ ~StrptimeRaises(returned[k].sys_updated_on)
              /\ sent[m].message = <<"Incoming: ">> \o issue_details(returned[k])
        /\ outcome = "done" => Watermark = clock

C2_Witness ==
    /\ FirstCycle
    /\ outcome = "done"
    /\ Len(returned) = 1
    /\ sent # <<>>
    /\ Watermark > invoked
    /\ \E i \in DOMAIN tickets :
          /\ tickets[i].updated <= invoked
          /\ tickets[i].assigned_to = ""
          /\ tickets[i].group = PolledGroup

\* C3 as stated (no silent loss): between poll cycles, every unassigned
\* ticket of the polled group that was last updated after the seed and at or
\* before the stored watermark has had that update notified.
C3_NoSilentLoss ==
    (pc = "idle" /\ HasLastRun(store)) =>
        \A i \in DOMAIN tickets :
            ( /\ tickets[i].assigned_to = ""
              /\ tickets[i].group = PolledGroup
              /\ tickets[i].updated > ReadingInstant(seeded[1])
              /\ tickets[i].updated <= Watermark ) => i \in notified

\* C4: with a clock that never goes back, a stored watermark is never
\* removed and never replaced by a smaller one, whatever the cycles do.
C4_WatermarkMonotonic ==
    [][HasLastRun(store) =>
          (HasLastRun(store') /\ store'["LAST_RUN"] >= store["LAST_RUN"])]_vars

C4_Witness ==
    /\ pc = "returned"
    /\ outcome = "done"
    /\ HasLastRun(before)
    /\ store["LAST_RUN"] > before["LAST_RUN"]

TransportFailed(status_code) ==
    status_code # NoResponse /\ (status_code = ConnectionError \/ status_code \notin 200..299)

CouldNotGet(number) ==
    Returned(<<"Could not get information about ">> \o number \o <<" from ServiceNow">>)

\* C6 as stated: on a non-2xx status and on a network error alike, sn returns
\* the error string naming the ticket number and new_issues aborts the cycle,
\* and no exception propagates.
C6_Original ==
    /\ (pc = "returned" /\ TransportFailed(http)) => outcome = "aborted"
    /\ (snPc = "returned" /\ TransportFailed(snResponse.status_code)) =>
           snReturn = CouldNotGet(snNumber)

\* C6 amended: a status other than 200 (so every non-2xx status) is recovered
\* on both paths, sn returning the error string that names the ticket number
\* and new_issues aborting the cycle with nothing sent and no exception; a
\* network error is caught on neither path, the exception of the HTTP client
\* propagates out of sn and out of new_issues.
C6_StatusRecoveredErrorPropagates ==
    /\ (pc = "returned" /\ http # NoResponse /\ http # 200) =>
           /\ sent = <<>>
           /\ outcome = IF http = ConnectionError THEN "raised" ELSE "aborted"
    /\ (snPc = "returned" /\ snResponse.status_code # NoResponse
                          /\ snResponse.status_code # 200) =>
           /\ Len(snRequests) = 1
           /\ snReturn = IF snResponse.status_code = ConnectionError
                         THEN Raised("ConnectionError")
                         ELSE CouldNotGet(snNumber)

C6_Witness ==
    /\ snPc = "returned"
    /\ snResponse.status_code = ConnectionError
    /\ snReturn.kind = "raise"
    /\ pc = "loop"
    /\ http = 200

\* the message new_issues builds for a record
Incoming(issue) == <<"Incoming: ">> \o issue_details(issue)

Count(r, message) ==
    Cardinality({m \in 1..Len(sent) : sent[m].room = r /\ sent[m].message = message})

InList(r, roomList) == \E k \in 1..Len(roomList) : roomList[k] = r

RECURSIVE SumLen(_)
SumLen(lists) == IF lists = <<>> THEN 0 ELSE Len(Head(lists)) + SumLen(Tail(lists))

\* C7: after a poll cycle whose HTTP call succeeded and whose tickets all
\* format, every returned ticket has been sent exactly once to every room
\* subscribed when it was sent and to no other, as "Incoming: " followed by
\* its detail line, and nothing else has been sent: with an unchanged room
\* set the sends number results x rooms, and none for an empty result.
C7_OnePerTicketPerRoom ==
    (pc = "returned" /\ http = 200 /\ AllFormat(returned)) =>
        /\ Len(seen) = Len(returned)
        /\ Len(sent) = SumLen(seen)
        /\ \A k \in 1..Len(returned) : \A r \in Rooms :
              Count(r, Incoming(returned[k])) = IF InList(r, seen[k]) THEN 1 ELSE 0
        /\ (\A k \in 1..Len(seen) : seen[k] = RoomList(1)) =>
              Len(sent) = Len(returned) * Cardinality(rooms)
        /\ returned = <<>> => sent = <<>>

C7_Witness ==
    /\ pc = "returned"
    /\ http = 200
    /\ Len(returned) = 2
    /\ AllFormat(returned)
    /\ rooms = Rooms
    /\ Len(sent) = 4

\* INC or TASK followed by exactly seven digits and nothing else
ExactNumber(text) ==
    \E prefix \in {INC, TASK} :
        /\ Len(text) = Len(prefix) + 7
        /\ SubSeq(text, 1, Len(prefix)) = prefix
        /\ \A k \in (Len(prefix) + 1)..Len(text) : text[k] \in Digits

\* C8 as stated: for an argument that is not INC or TASK followed by exactly
\* seven digits, sn returns "Invalid issue number" and issues no request.
C8_InvalidRejected ==
    (snPc \in {"get", "returned"} /\ ~ExactNumber(snNumber)) =>
        /\ snRequests = <<>>
        /\ snReturn = Returned(<<"Invalid issue number">>)

\* C9: for an argument that is INC or TASK followed by exactly seven digits,
\* sn issues exactly one request, to table incident for INC and to table
\* sc_task for TASK, for that very number, and issues no other before it ends.
C9_OneRequestRightTable ==
    (snPc \in {"get", "returned"} /\ ExactNumber(snNumber)) =>
        /\ snRequests = <<[table |-> IF SubSeq(snNumber, 1, 3) = INC
                                     THEN "incident" ELSE "sc_task",
                           number |-> snNumber]>>
        /\ snPc = "returned" => snReturn.kind \in {"return", "raise"}

C9_Witness ==
    /\ snPc = "returned"
    /\ snNumber = TASK \o D7
    /\ snRequests = <<[table |-> "sc_task", number |-> TASK \o D7]>>
    /\ snReturn.kind = "return"

\* C10: a lookup answered with status 200 returns the detail line of the
\* record when the result list holds exactly one record (that formats), and
\* "<number> was not found" when it holds none or more than one.
C10_OneResultOrNotFound ==
    (snPc = "returned" /\ snResponse.status_code = 200) =>
        LET result == snResponse.result IN
        /\ (Len(result) = 1 /\ AllFormat(result)) =>
              /\ snReturn = Returned(issue_details(result[1]))
              /\ snReturn.text[1] = "https://url.corp.redhat.com/"
              /\ SubSeq(snReturn.text, 2, 1 + Len(result[1].number)) = result[1].number
              /\ snReturn.text[Len(snReturn.text)] = "UTC"
        /\ Len(result) # 1 => snReturn = Returned(snNumber \o <<" was not found">>)

C10_Witness ==
    /\ snPc = "returned"
    /\ snResponse.status_code = 200
    /\ Len(snResponse.result) = 2
    /\ AllFormat(snResponse.result)
    /\ snReturn = Returned(snNumber \o <<" was not found">>)

\* C11: a step of a lookup (its call, its response, its reply) leaves the
\* stored watermark and everything the poll cycle has read, sent or recorded
\* as it was, and a step of the poll cycle leaves the lookup as it was: the
\* cycle goes through the same watermarks and sends with lookups interleaved
\* as without them.
C11_LookupsLeaveWatermark ==
    [][/\ snVars' # snVars => (store' = store /\ pollVars' = pollVars)
       /\ (store' # store \/ pollVars' # pollVars) => snVars' = snVars]_vars

C11_Witness ==
    /\ snPc = "returned"
    /\ snResponse.status_code = 200
    /\ Len(snResponse.result) = 1
    /\ snReturn.kind = "return"
    /\ pc = "loop"
    /\ sent # <<>>
    /\ results # <<>>
    /\ HasLastRun(store)

\* position of the first record of a result list that does not format
FirstMalformed(issues) ==
    CHOOSE k \in 1..Len(issues) :
        /\ StrptimeRaises(issues[k].sys_updated_on)
        /\ \A j \in 1..(k - 1) : ~StrptimeRaises(issues[j].sys_updated_on)

\* C12: a record whose sys_updated_on is not in the YYYY-MM-DD HH:MM:SS
\* layout makes the formatter raise and nothing catches it.  A lookup that is
\* given it as its single result ends with the exception and returns no
\* string.  A poll cycle stops at that ticket: the tickets listed before it
\* have been sent, it and the tickets after it have not, the cycle ends with
\* the exception, and the stored watermark is still the one the cycle read
\* when it started (nothing has been written since).
C12_ParseFailurePropagates ==
    /\ (snPc = "returned" /\ snResponse.status_code = 200
          /\ Len(snResponse.result) = 1
          /\ StrptimeRaises(snResponse.result[1].sys_updated_on)) =>
            /\ snReturn = Raised("ValueError")
            /\ snReturn.kind # "return"
    /\ (pc = "returned" /\ http = 200 /\ ~AllFormat(returned)) =>
            LET k == FirstMalformed(returned) IN
            /\ outcome = "raised"
            /\ Len(seen) = k - 1
            /\ results = SubSeq(returned, k, Len(returned))
            /\ \A m \in 1..Len(sent) : \E j \in 1..(k - 1) :
                   sent[m].message = Incoming(returned[j])
            /\ HasLastRun(store) /\ store["LAST_RUN"] = last_run
            /\ HasLastRun(before) => store = before

C12_Witness ==
    /\ pc = "returned"
    /\ outcome = "raised"
    /\ http = 200
    /\ Len(returned) = 2
    /\ FirstMalformed(returned) = 2
    /\ sent # <<>>
    /\ HasLastRun(before)
    /\ clock > Watermark
    /\ snPc = "get"

C14_RoomsReadAtSendTime ==
    [][(pc = "loop" /\ pc' = "loop" /\ Len(results') < Len(results)) =>
          LET new == (Len(sent) + 1)..Len(sent') IN
          /\ SubSeq(sent', 1, Len(sent)) = sent
          /\ Len(sent') = Len(sent) + Cardinality(rooms)
          /\ {sent'[m].room : m \in new} = rooms
          /\ \A m \in new : sent'[m].message = Incoming(Head(results))]_vars

C14_Witness ==
    /\ pc \in {"loop", "returned"}
    /\ Len(returned) = 2
    /\ seen = << <<"room1">>, <<"room1", "room2">> >>
    /\ Len(sent) = 3
    /\ sent[1].message # sent[2].message
    /\ sent[3].room = "room2"

\* the date field and zone name that end a detail line
ShownDate(text) == SubSeq(text, Len(text) - 5, Len(text))

\* the first pass of the hour 01:00-02:00 of the day DST ends: the local
\* clock shows it a second time, in standard time, one hour later
RepeatedHour(u) == u = DstEndDay * HoursPerDay + 1 + EdtOffset

\* C15 as stated: the detail line of a well-formed ticket ends with the
\* ticket's sys_updated_on clock time shifted by the US/Eastern offset in
\* force when the ticket was updated (4 hours in DST, 5 otherwise), in the
\* YYYY-MM-DD HH:MM:SS layout, followed by "UTC".
C15_Original ==
    (snPc = "returned" /\ snResponse.status_code = 200
       /\ Len(snResponse.result) = 1 /\ AllFormat(snResponse.result)) =>
        LET issue == snResponse.result[1]
            u == tickets[TicketOrder[1]].updated
        IN  /\ snReturn.kind = "return"
            /\ ShownDate(snReturn.text) =
                  StrftimeDate(Strptime(issue.sys_updated_on) + OffsetAtInstant(u))
                  \o <<" ", "UTC">>

\* C15 amended: the detail line of a well-formed ticket ends with the
\* ticket's sys_updated_on clock time shifted by 4 hours when that clock time
\* lies in DST and by 5 hours otherwise, a clock time of the hour repeated at
\* the end of DST always counting as standard time, in the YYYY-MM-DD
\* HH:MM:SS layout with the date rolled over, followed by "UTC".  It is the
\* instant of the update in UTC, except for a ticket updated in the first
\* pass of the repeated hour, for which it is one hour later.
C15_ShiftedByZoneOffset ==
    (snPc = "returned" /\ snResponse.status_code = 200
       /\ Len(snResponse.result) = 1 /\ AllFormat(snResponse.result)) =>
        LET issue == snResponse.result[1]
            u == tickets[TicketOrder[1]].updated
            l == Strptime(issue.sys_updated_on)
            inDst == /\ l >= DstStartDay * HoursPerDay + 3
                     /\ l < DstEndDay * HoursPerDay + 1
        IN  /\ snReturn.kind = "return"
            /\ ShownDate(snReturn.text) =
                  StrftimeDate(l + (IF inDst THEN 4 ELSE 5)) \o <<" ", "UTC">>
            /\ ShownDate(snReturn.text) =
                  StrftimeDate(IF RepeatedHour(u) THEN u + 1 ELSE u) \o <<" ", "UTC">>

C15_Witness ==
    /\ snPc = "returned"
    /\ snResponse.status_code = 200
    /\ Len(snResponse.result) = 1
    /\ snReturn.kind = "return"
    /\ LET u == tickets[TicketOrder[1]].updated IN
          /\ OffsetAtInstant(u) = EdtOffset
          /\ ~RepeatedHour(u)
          /\ u \div HoursPerDay > (u - EdtOffset) \div HoursPerDay
          /\ ShownDate(snReturn.text) = StrftimeDate(u) \o <<" ", "UTC">>

\* the tickets the filter is meant to select for a watermark: unassigned, of
\* the polled group, last updated at an instant after the watermark's instant
UpdatedSince(bound) ==
    {i \in DOMAIN tickets : /\ tickets[i].assigned_to = ""
                            /\ tickets[i].group = PolledGroup
                            /\ tickets[i].updated > ReadingInstant(bound)}

\* C16 as stated: the response to the poll request lists exactly the
\* unassigned tickets last updated at an instant after the instant of the
\* watermark in the query, none more and none less, the UTC bound and the
\* US/Eastern sys_updated_on values being on one time scale.
C16_FilterOnOneTimeScale ==
    [][(pc = "get" /\ pc' = "loop") =>
          {returned'[k] : k \in 1..Len(returned')}
             = {Issue(i) : i \in UpdatedSince(last_run)}]_vars

\* place of a ticket in the listing order of the backend
TicketPos(i) == CHOOSE k \in 1..Len(TicketOrder) : TicketOrder[k] = i

\* the records of the response that the loop has gone through and sent
Processed(i) == \E m \in 1..Len(seen) : returned[m] = Issue(i)

\* no ticket listed after ticket i has been sent in the current cycle
NoneSentAfter(i) ==
    \A m \in 1..Len(seen) : \A t \in TicketIds :
        returned[m].number = Number(t) => TicketPos(t) < TicketPos(i)

\* C17 as stated: once formatting has failed on a ticket that keeps matching
\* the filter, every later cycle ends with the watermark where it was, has
\* sent no ticket listed after that ticket, and has sent again every ticket
\* listed before it that the failing cycle had sent.
C17_Original ==
    (pc = "returned" /\ failed # {}) =>
        \A i \in failed :
            /\ store = before
            /\ NoneSentAfter(i)
            /\ \A j \in notified \ covered :
                  TicketPos(j) < TicketPos(i) => Processed(j)

\* C17 amended: a cycle in which formatting fails on the k-th returned
\* ticket has sent the first k-1 and leaves the watermark where it was, and
\* as long as that ticket is not updated it keeps matching the filter: no
\* later cycle advances the watermark or sends a ticket listed after it.  A
\* later cycle whose request is answered with 200 stops at the first
\* malformed ticket again, having sent again the tickets listed before it
\* that earlier cycles had sent and that still match the filter; a later
\* cycle whose request fails sends nothing.
C17_PoisonedCycleRepeats ==
    /\ (pc = "returned" /\ outcome = "raised" /\ http = 200) =>
           /\ Len(seen) = FirstMalformed(returned) - 1
           /\ Len(sent) = SumLen(seen)
           /\ store["LAST_RUN"] = last_run
    /\ \A i \in failed :
           /\ ~tickets[i].iso
           /\ HasLastRun(store) /\ Selected(tickets[i], store["LAST_RUN"])
    /\ (pc = "returned" /\ failed # {}) =>
           /\ store = before
           /\ outcome # "done"
           /\ \A i \in failed : NoneSentAfter(i)
           /\ http # 200 => sent = <<>>
           /\ http = 200 =>
                 /\ outcome = "raised"
                 /\ Len(seen) = FirstMalformed(returned) - 1
                 /\ \A j \in notified \ covered :
                       Selected(tickets[j], last_run) =>
                          \E m \in 1..Len(returned) : returned[m] = Issue(j)
                 /\ \A i \in failed : \A j \in notified \ covered :
                       (TicketPos(j) < TicketPos(i) /\ Selected(tickets[j], last_run))
                          => Processed(j)

C17_Witness ==
    /\ pc = "returned"
    /\ http = 200
    /\ outcome = "raised"
    /\ failed = {TicketOrder[2]}
    /\ TicketOrder[1] \in notified \ covered
    /\ Selected(tickets[TicketOrder[1]], last_run)
    /\ Processed(TicketOrder[1])
    /\ Len(sent) = 2
    /\ clock > Watermark

\* C18: a ticket that a cycle has sent and that has not been updated since
\* is out of the filter from the moment that cycle has run to its end and
\* written the watermark: no later cycle is given it again, so it is sent in
\* one cycle only, once to each room of that cycle.  A ticket that a cycle is
\* given although an earlier cycle has sent it was sent by a cycle that did
\* not run to its end.
C18_NoDuplicateAfterAdvance ==
    /\ covered \subseteq notified
    /\ \A i \in covered :
           HasLastRun(store) /\ ~Selected(tickets[i], store["LAST_RUN"])
    /\ pc = "loop" =>
           \A k \in 1..Len(returned) : \A i \in covered : returned[k] # Issue(i)
    /\ (pc = "loop" /\ results # <<>>) =>
           \A i \in notified : Head(results) = Issue(i) => i \notin covered
    /\ (pc = "returned" /\ outcome = "done") =>
           /\ \A i \in notified : Processed(i) => i \in covered
           /\ \A k \in 1..Len(returned) : \A r \in Rooms :
                 Count(r, Incoming(returned[k])) <= 1

C18_Witness ==
    /\ pc = "returned"
    /\ outcome = "done"
    /\ HasLastRun(before)
    /\ returned = <<>>
    /\ \E i \in covered :
          /\ tickets[i].assigned_to = ""
          /\ tickets[i].group = PolledGroup
          /\ tickets[i].updated > ReadingInstant(seeded[1])
          /\ tickets[i].updated = ReadingInstant(before["LAST_RUN"])

====
